---- MODULE Spec2Model ----
(***************************************************************************)
(* Model of the digger GitLab control path:                                *)
(*   - policy:  DiggerHttpPolicyProvider.GetPolicy and                     *)
(*              DiggerPolicyChecker.Check            (package policy)      *)
(*   - router:  ConvertGitLabEventToCommands         (pkg/gitlab)          *)
(*   - runner:  RunCommandsPerProject                (pkg/gitlab)          *)
(* Three specifications share one set of variables: SpecPolicy, SpecRouter *)
(* and Spec (the runner, with two overlapping CI jobs and the lock store). *)
(***************************************************************************)
EXTENDS Integers, Sequences, FiniteSets, TLC

VARIABLES
    polIn,         \* policy: what the HTTP endpoints, the CI service and the engine answer
    getPolicyOut,  \* policy: result of the last direct GetPolicy call
    checkOut,      \* policy: result of the last Check call
    routerIn,      \* router: the event, the GitLab context and the impacted projects
    routerOut,     \* router: result of the last ConvertGitLabEventToCommands call
    jobs,          \* runner: each CI job's RunCommandsPerProject invocation
    locks          \* runner: the unreleased locks of the shared lock store

polVars == <<polIn, getPolicyOut, checkOut>>

routerVars == <<routerIn, routerOut>>

runnerVars == <<jobs, locks>>

vars == <<polIn, getPolicyOut, checkOut, routerIn, routerOut, jobs, locks>>

----------------------------------------------------------------------------
(* Bounds *)

\* longest list of expressions the policy engine returns
MaxExprs == 2

\* most impacted projects of one event
MaxProjects == 2

\* most fragments a comment text is made of
MaxFrags == 2

\* most commands in the batch of one RunCommandsPerProject invocation (a
\* project without commands counts for one)
MaxCmds == 2

----------------------------------------------------------------------------
(* package policy : errors and HTTP outcomes *)

\* Go's nil error
NoError == [kind |-> "nil", code |-> 0, content |-> ""]

\* an error of kind k carrying no status
ErrorOf(k) == [kind |-> k, code |-> 0, content |-> ""]

\* status codes an endpoint may answer with
Statuses == {200, 404, 500, 403}

\* What one endpoint does when asked: http.NewRequest fails, HttpClient.Do
\* fails, or a response arrives whose body io.ReadAll reads or fails to read.
HttpOutcomes(bodies) ==
    {[kind |-> "newRequestError", status |-> 0, body |-> "", readOk |-> TRUE],
     [kind |-> "transportError", status |-> 0, body |-> "", readOk |-> TRUE]}
    \cup [kind : {"response"}, status : Statuses, body : bodies, readOk : BOOLEAN]

\* a fetch that returns io.ReadAll's error
fetchPolicyReadErrorReturned(o) ==
    IF o.kind = "newRequestError"
    THEN [content |-> "", respNil |-> TRUE, StatusCode |-> 0,
          err |-> ErrorOf("newRequest"), sent |-> FALSE]
    ELSE IF o.kind = "transportError"
    THEN [content |-> "", respNil |-> TRUE, StatusCode |-> 0,
          err |-> ErrorOf("transport"), sent |-> TRUE]
    ELSE IF ~o.readOk
    THEN [content |-> "", respNil |-> FALSE, StatusCode |-> o.status,
          err |-> ErrorOf("read"), sent |-> TRUE]
    ELSE [content |-> o.body, respNil |-> FALSE, StatusCode |-> o.status,
          err |-> NoError, sent |-> TRUE]

\* getPolicyForNamespace / getPolicyForOrganisation share one body: the
\* (content, resp, err) triple for an endpoint outcome o.  sent tells whether
\* HttpClient.Do was called.
fetchPolicy(o) ==
    IF o.kind = "newRequestError"
    THEN [content |-> "", respNil |-> TRUE, StatusCode |-> 0,
          err |-> ErrorOf("newRequest"), sent |-> FALSE]
    ELSE IF o.kind = "transportError"
    THEN [content |-> "", respNil |-> TRUE, StatusCode |-> 0,
          err |-> ErrorOf("transport"), sent |-> TRUE]
    ELSE IF ~o.readOk
    THEN [content |-> "", respNil |-> FALSE, StatusCode |-> o.status,
          err |-> NoError, sent |-> TRUE]
    ELSE [content |-> o.body, respNil |-> FALSE, StatusCode |-> o.status,
          err |-> NoError, sent |-> TRUE]

getPolicyForOrganisation(o) == fetchPolicy(o)

getPolicyForNamespace(o) == fetchPolicy(o)

\* the requests a fetch put on the wire
Sent(r, endpoint) == IF r.sent THEN <<endpoint>> ELSE <<>>

\* the organisation-level half of GetPolicy (the 404 branch)
GetPolicyOrgLevel(orgAnswer, sentSoFar) ==
    LET r == getPolicyForOrganisation(orgAnswer)
        requests == sentSoFar \o Sent(r, "org")
    IN  IF r.err # NoError
        THEN [policy |-> "", err |-> r.err, requests |-> requests]
        ELSE IF r.StatusCode = 200
        THEN [policy |-> r.content, err |-> NoError, requests |-> requests]
        ELSE IF r.StatusCode = 404
        THEN [policy |-> "", err |-> NoError, requests |-> requests]
        ELSE [policy |-> "",
              err |-> [kind |-> "unexpectedOrganisation",
                       code |-> r.StatusCode, content |-> r.content],
              requests |-> requests]

\* GetPolicy that falls back to the organisation for every project-level
\* status other than 200
GetPolicyFallsBackOnAnyStatus(projectAnswer, orgAnswer) ==
    LET r == getPolicyForNamespace(projectAnswer)
        requests == Sent(r, "project")
    IN  IF r.err # NoError
        THEN [policy |-> "", err |-> r.err, requests |-> requests]
        ELSE IF r.StatusCode = 200
        THEN [policy |-> r.content, err |-> NoError, requests |-> requests]
        ELSE GetPolicyOrgLevel(orgAnswer, requests)

\* GetPolicy(namespace, projectName) against the two endpoints' answers
GetPolicy(projectAnswer, orgAnswer) ==
    LET r == getPolicyForNamespace(projectAnswer)
        requests == Sent(r, "project")
    IN  IF r.err # NoError
        THEN [policy |-> "", err |-> r.err, requests |-> requests]
        ELSE IF r.StatusCode = 200
        THEN [policy |-> r.content, err |-> NoError, requests |-> requests]
        ELSE IF r.StatusCode = 404
        THEN GetPolicyOrgLevel(orgAnswer, requests)
        ELSE [policy |-> "",
              err |-> [kind |-> "unexpectedProject",
                       code |-> r.StatusCode, content |-> r.content],
              requests |-> requests]

----------------------------------------------------------------------------
(* package policy : the checker *)

Teams == {"ops", "dev"}

\* ciService.GetUserTeams: a team set, or an error
TeamLookups ==
    {[ok |-> FALSE, teams |-> {}]} \cup [ok : {TRUE}, teams : SUBSET Teams]

\* an expression value of the engine's result: a Go bool, or something else
ExprValues ==
    {[isBool |-> TRUE, b |-> TRUE], [isBool |-> TRUE, b |-> FALSE],
     [isBool |-> FALSE, b |-> FALSE]}

SeqsUpTo(S, n) == UNION {[1..k -> S] : k \in 0..n}

\* What rego does with a policy text and an input: PrepareForEval fails, Eval
\* fails (results is nil), Eval returns no result, or results[0].Expressions.
EngineOutcomes ==
    {[kind |-> k, exprs |-> <<>>] : k \in {"prepareError", "evalError", "noResults"}}
    \cup [kind : {"expressions"}, exprs : SeqsUpTo(ExprValues, MaxExprs)]

\* Decide with the loop returning at the first true expression
DecideStopsAtTrue(exprs, i) ==
    IF i > Len(exprs)
    THEN [allowed |-> TRUE, err |-> NoError]
    ELSE IF ~exprs[i].isBool
    THEN [allowed |-> FALSE, err |-> ErrorOf("decision is not a boolean")]
    ELSE IF ~exprs[i].b
    THEN [allowed |-> FALSE, err |-> NoError]
    ELSE [allowed |-> TRUE, err |-> NoError]

\* the loop over expressions (lines 147-157), from index i
RECURSIVE Decide(_, _)
Decide(exprs, i) ==
    IF i > Len(exprs)
    THEN [allowed |-> TRUE, err |-> NoError]
    ELSE IF ~exprs[i].isBool
    THEN [allowed |-> FALSE, err |-> ErrorOf("decision is not a boolean")]
    ELSE IF ~exprs[i].b
    THEN [allowed |-> FALSE, err |-> NoError]
    ELSE Decide(exprs, i + 1)

\* Evaluate that hands the error of a failed PrepareForEval back next to a
\* granting decision
EvaluateOpenOnPrepareError(engine) ==
    IF engine.kind = "prepareError"
    THEN [allowed |-> TRUE, err |-> ErrorOf("prepare")]
    ELSE IF engine.kind \in {"evalError", "noResults"} \/ Len(engine.exprs) = 0
    THEN [allowed |-> FALSE, err |-> ErrorOf("no result found")]
    ELSE Decide(engine.exprs, 1)

\* the part of Check after the empty-policy test: rego prepare, eval, decide
Evaluate(engine) ==
    IF engine.kind = "prepareError"
    THEN [allowed |-> FALSE, err |-> ErrorOf("prepare")]
    ELSE IF engine.kind \in {"evalError", "noResults"} \/ Len(engine.exprs) = 0
    THEN [allowed |-> FALSE, err |-> ErrorOf("no result found")]
    ELSE Decide(engine.exprs, 1)

\* the policy text Check goes on with: GetPolicy's, its error dropped
\* (line 110's err is overwritten by line 111's)
PolicyOfCheck(fetched) == fetched.policy

\* Check without the empty-policy return: the engine decides every request
CheckAlwaysEvaluates(in) ==
    LET fetched == GetPolicy(in.project, in.org)
        base == [called |-> TRUE, allowed |-> FALSE, err |-> NoError,
                 policy |-> fetched.policy, fetchErr |-> fetched.err,
                 requests |-> fetched.requests, engineConsulted |-> FALSE]
    IN  IF ~in.teams.ok
        THEN [base EXCEPT !.err = ErrorOf("teams")]
        ELSE LET d == Evaluate(in.engine)
             IN  [base EXCEPT !.allowed = d.allowed, !.err = d.err,
                              !.engineConsulted = TRUE]

\* Check with the empty-policy return placed before the test of the team
\* lookup's error
CheckEmptyPolicyFirst(in) ==
    LET fetched == GetPolicy(in.project, in.org)
        policy == PolicyOfCheck(fetched)
        base == [called |-> TRUE, allowed |-> FALSE, err |-> NoError,
                 policy |-> policy, fetchErr |-> fetched.err,
                 requests |-> fetched.requests, engineConsulted |-> FALSE]
    IN  IF policy = ""
        THEN [base EXCEPT !.allowed = TRUE]
        ELSE IF ~in.teams.ok
        THEN [base EXCEPT !.err = ErrorOf("teams")]
        ELSE LET d == Evaluate(in.engine)
             IN  [base EXCEPT !.allowed = d.allowed, !.err = d.err,
                              !.engineConsulted = TRUE]

\* DiggerPolicyChecker.Check
Check(in) ==
    LET fetched == GetPolicy(in.project, in.org)
        policy == PolicyOfCheck(fetched)
        base == [called |-> TRUE, allowed |-> FALSE, err |-> NoError,
                 policy |-> policy, fetchErr |-> fetched.err,
                 requests |-> fetched.requests, engineConsulted |-> FALSE]
    IN  IF ~in.teams.ok
        THEN [base EXCEPT !.err = ErrorOf("teams")]
        ELSE IF policy = ""
        THEN [base EXCEPT !.allowed = TRUE]
        ELSE LET d == Evaluate(in.engine)
             IN  [base EXCEPT !.allowed = d.allowed, !.err = d.err,
                              !.engineConsulted = TRUE]

----------------------------------------------------------------------------
(* pkg/gitlab : events, projects, comment texts *)

MergeRequestOpened == "merge_request_opened"
MergeRequestUpdated == "merge_request_updated"
MergeRequestClosed == "merge_request_closed"
MergeRequestComment == "merge_request_commented"

\* MERGE_REQUEST_EVENT_NAME: the four known values, unset, and another one
EventTypes ==
    {MergeRequestOpened, MergeRequestUpdated, MergeRequestClosed,
     MergeRequestComment, "", "merge_request_approved"}

supportedCommands == <<"digger plan", "digger apply", "digger unlock", "digger lock">>

\* Texts are sequences of characters, so that containment is computed.
DiggerSp == <<"d", "i", "g", "g", "e", "r", " ">>
PlanW == <<"p", "l", "a", "n">>
ApplyW == <<"a", "p", "p", "l", "y">>
UnW == <<"u", "n">>
LockW == <<"l", "o", "c", "k">>

\* the characters of a supported command
Chars(command) ==
    CASE command = "digger plan" -> DiggerSp \o PlanW
      [] command = "digger apply" -> DiggerSp \o ApplyW
      [] command = "digger unlock" -> DiggerSp \o UnW \o LockW
      [] command = "digger lock" -> DiggerSp \o LockW

\* strings.Contains(s, substr)
Contains(s, substr) ==
    \E i \in 1..(Len(s) - Len(substr) + 1) : SubSeq(s, i, i + Len(substr) - 1) = substr

\* pieces comment texts are built from
Fragments ==
    {Chars(supportedCommands[k]) : k \in 1..Len(supportedCommands)}
    \cup {DiggerSp, PlanW, UnW, LockW,
          <<"D", "i", "g", "g", "e", "r", " ", "P", "l", "a", "n">>}

RECURSIVE Concat(_)
Concat(frags) == IF frags = <<>> THEN <<>> ELSE Head(frags) \o Concat(Tail(frags))

CommentTexts == {Concat(f) : f \in SeqsUpTo(Fragments, MaxFrags)}

\* digger.Project values of a configuration
ProjectPool ==
    {[Name |-> "p1", Dir |-> "d1", Workspace |-> "default", Terragrunt |-> FALSE,
      WorkflowConfiguration |->
          [OnCommitToDefault |-> <<"digger apply">>,
           OnPullRequestPushed |-> <<"digger plan">>,
           OnPullRequestClosed |-> <<"digger unlock">>]],
     [Name |-> "p1", Dir |-> "d1", Workspace |-> "dev", Terragrunt |-> FALSE,
      WorkflowConfiguration |->
          [OnCommitToDefault |-> <<"terraform fmt", "digger apply">>,
           OnPullRequestPushed |-> <<"digger lock", "digger plan">>,
           OnPullRequestClosed |-> <<>>]],
     [Name |-> "p2", Dir |-> "d2", Workspace |-> "default", Terragrunt |-> TRUE,
      WorkflowConfiguration |->
          [OnCommitToDefault |-> <<"digger unlock", "digger apply">>,
           OnPullRequestPushed |-> <<"digger plan", "digger lock">>,
           OnPullRequestClosed |-> <<"digger unlock", "digger lock">>]]}

\* the digger.ProjectCommand built from a project and a command list
ProjectCommand(project, workspace, commands) ==
    [ProjectName |-> project.Name, ProjectDir |-> project.Dir,
     ProjectWorkspace |-> workspace, Terragrunt |-> project.Terragrunt,
     Commands |-> commands]

\* the workflow stage each lifecycle case reads, with a pair of cases swapped
StageCommandsSwapped(eventType, project) ==
    CASE eventType = MergeRequestOpened -> project.WorkflowConfiguration.OnPullRequestPushed
      [] eventType = MergeRequestUpdated -> project.WorkflowConfiguration.OnCommitToDefault
      [] eventType = MergeRequestClosed -> project.WorkflowConfiguration.OnPullRequestClosed

\* the workflow stage each lifecycle case reads (lines 148, 159, 170)
StageCommands(eventType, project) ==
    CASE eventType = MergeRequestOpened -> project.WorkflowConfiguration.OnCommitToDefault
      [] eventType = MergeRequestUpdated -> project.WorkflowConfiguration.OnPullRequestPushed
      [] eventType = MergeRequestClosed -> project.WorkflowConfiguration.OnPullRequestClosed

\* the loop over impactedProjects of the Opened, Updated and Closed cases
LifecycleCommands(eventType, impactedProjects) ==
    [i \in 1..Len(impactedProjects) |->
        ProjectCommand(impactedProjects[i], impactedProjects[i].Workspace,
                       StageCommands(eventType, impactedProjects[i]))]

\* the Commented case with the loop left at the first matching phrase
RECURSIVE CommentCommandsFirstMatch(_, _, _, _)
CommentCommandsFirstMatch(text, impactedProjects, k, acc) ==
    IF k > Len(supportedCommands)
    THEN acc
    ELSE IF Contains(text, Chars(supportedCommands[k]))
    THEN acc \o [i \in 1..Len(impactedProjects) |->
                    ProjectCommand(impactedProjects[i], impactedProjects[i].Workspace,
                                   <<supportedCommands[k]>>)]
    ELSE CommentCommandsFirstMatch(text, impactedProjects, k + 1, acc)

\* the Commented case with each phrase's commands put in front of those
\* gathered so far
RECURSIVE CommentCommandsPrepended(_, _, _, _)
CommentCommandsPrepended(text, impactedProjects, k, acc) ==
    IF k > Len(supportedCommands)
    THEN acc
    ELSE IF Contains(text, Chars(supportedCommands[k]))
    THEN CommentCommandsPrepended(text, impactedProjects, k + 1,
             [i \in 1..Len(impactedProjects) |->
                 ProjectCommand(impactedProjects[i], impactedProjects[i].Workspace,
                                <<supportedCommands[k]>>)] \o acc)
    ELSE CommentCommandsPrepended(text, impactedProjects, k + 1, acc)

\* the Commented case (lines 175-197): for each supported command, from the
\* k-th on, contained in the text, one ProjectCommand per impacted project
RECURSIVE CommentCommands(_, _, _, _)
CommentCommands(text, impactedProjects, k, acc) ==
    IF k > Len(supportedCommands)
    THEN acc
    ELSE IF Contains(text, Chars(supportedCommands[k]))
    THEN CommentCommands(text, impactedProjects, k + 1,
             acc \o [i \in 1..Len(impactedProjects) |->
                        ProjectCommand(impactedProjects[i], impactedProjects[i].Workspace,
                                       <<supportedCommands[k]>>)])
    ELSE CommentCommands(text, impactedProjects, k + 1, acc)

\* the default case returning what was collected, without an error
UnsupportedEventIgnored(event) == [commandsPerProject |-> <<>>, err |-> NoError]

\* the default case (lines 200-202)
UnsupportedEvent(event) ==
    [commandsPerProject |-> <<>>, err |-> ErrorOf("unsupported GitLab event type")]

ConvertGitLabEventToCommands(event, gitLabContext, impactedProjects) ==
    IF event.EventType \in {MergeRequestOpened, MergeRequestUpdated, MergeRequestClosed}
    THEN [commandsPerProject |-> LifecycleCommands(event.EventType, impactedProjects),
          err |-> NoError]
    ELSE IF event.EventType = MergeRequestComment
    THEN [commandsPerProject |->
              CommentCommands(gitLabContext.DiggerCommand, impactedProjects, 1, <<>>),
          err |-> NoError]
    ELSE UnsupportedEvent(event)

----------------------------------------------------------------------------
(* pkg/gitlab : RunCommandsPerProject, with the executor and the lock store *)

\* CI jobs that may overlap; job j runs for merge request jobs[j].MergeRequestIId
Jobs == {1, 2}

\* CI_PROJECT_NAMESPACE and CI_PROJECT_NAME, the same for every job of a repository
ProjectNamespace == "ns"
RepoName == "repo"

\* the key of the utils.ProjectLockImpl built for a command (lines 210-216):
\* RepoOwner, RepoName, ProjectName
LockKey(projectCommands) == <<ProjectNamespace, RepoName, projectCommands.ProjectName>>

\* Acquire that writes the lock without looking for another holder's
AcquireUnchecked(store, key, holder) ==
    [ok |-> TRUE, store |-> store \cup {[key |-> key, holder |-> holder]}]

\* LockCoordinator.Acquire: one atomic check-and-set; true iff no unreleased
\* lock exists for key, and then holder has it
Acquire(store, key, holder) ==
    IF \E l \in store : l.key = key
    THEN [ok |-> FALSE, store |-> store]
    ELSE [ok |-> TRUE, store |-> store \cup {[key |-> key, holder |-> holder]}]

\* LockCoordinator.Release: true iff holder has the lock for key, then cleared
Release(store, key, holder) ==
    IF [key |-> key, holder |-> holder] \in store
    THEN [ok |-> TRUE, store |-> store \ {[key |-> key, holder |-> holder]}]
    ELSE [ok |-> FALSE, store |-> store]

\* DiggerExecutor.Lock: Acquire
ExecutorLock(store, key, holder) == Acquire(store, key, holder)

\* DiggerExecutor.Unlock: Release
ExecutorUnlock(store, key, holder) == Release(store, key, holder)

\* DiggerExecutor.Plan: Acquire, plan, Release
ExecutorPlan(store, key, holder) ==
    LET a == Acquire(store, key, holder)
    IN  IF a.ok THEN [ok |-> TRUE, store |-> Release(a.store, key, holder).store]
        ELSE [ok |-> FALSE, store |-> store]

\* DiggerExecutor.Apply: Acquire, apply, the hold persists
ExecutorApply(store, key, holder) == Acquire(store, key, holder)

\* policy.Checker.Check for the requester of the jobs, under a policy of the
\* repository that denies the requester apply and lock
CheckerAllows(command) == command \notin {"digger apply", "digger lock"}

\* the nested loops of lines 208-209 as the list of their iterations, from
\* project i, command c on
RECURSIVE Iterations(_, _, _)
Iterations(commandsPerProject, i, c) ==
    IF i > Len(commandsPerProject)
    THEN <<>>
    ELSE IF c > Len(commandsPerProject[i].Commands)
    THEN Iterations(commandsPerProject, i + 1, 1)
    ELSE <<[project |-> i, command |-> c]>> \o Iterations(commandsPerProject, i, c + 1)

\* line 241: lockAcquisitionSuccess = diggerExecutor.Lock(...)
RecordLock(lockAcquisitionSuccess, result) == result

\* the switch with a default case that plans
RunCommandDefaultPlan(store, projectCommands, command, holder) ==
    LET key == LockKey(projectCommands)
    IN  CASE command = "digger apply" ->
                [op |-> "Apply"] @@ ExecutorApply(store, key, holder)
          [] command = "digger unlock" ->
                [op |-> "Unlock"] @@ ExecutorUnlock(store, key, holder)
          [] command = "digger lock" ->
                [op |-> "Lock"] @@ ExecutorLock(store, key, holder)
          [] OTHER -> [op |-> "Plan"] @@ ExecutorPlan(store, key, holder)

\* the switch of lines 229-242 for one command: the executor operation, its
\* result and the lock store after it
RunCommand(store, projectCommands, command, holder) ==
    LET key == LockKey(projectCommands)
    IN  CASE command = "digger plan" ->
                [op |-> "Plan"] @@ ExecutorPlan(store, key, holder)
          [] command = "digger apply" ->
                [op |-> "Apply"] @@ ExecutorApply(store, key, holder)
          [] command = "digger unlock" ->
                [op |-> "Unlock"] @@ ExecutorUnlock(store, key, holder)
          [] command = "digger lock" ->
                [op |-> "Lock"] @@ ExecutorLock(store, key, holder)
          [] OTHER -> [op |-> "none", ok |-> TRUE, store |-> store]

\* loops that stop at the first lock acquisition that returned false
AdvanceUntilRefused(todo, r) == IF r.op = "Lock" /\ ~r.ok THEN <<>> ELSE Tail(todo)

\* what the loops of lines 208-209 have left after an iteration whose switch
\* gave r: the body has no break, continue or return, so the next iteration
\* follows whatever r is
Advance(todo, r) == Tail(todo)

\* lines 246-249: os.Exit(1), or return nil
ExitStatus(lockAcquisitionSuccess) == IF ~lockAcquisitionSuccess THEN "exit1" ELSE "returned"

----------------------------------------------------------------------------
(* The variables of a part of the program that a specification leaves idle *)

NotCalledGetPolicy == [called |-> FALSE, policy |-> "", err |-> NoError, requests |-> <<>>]

NotCalledCheck ==
    [called |-> FALSE, allowed |-> FALSE, err |-> NoError, policy |-> "",
     fetchErr |-> NoError, requests |-> <<>>, engineConsulted |-> FALSE]

NotCalledRouter == [called |-> FALSE, commandsPerProject |-> <<>>, err |-> NoError]

IdlePolicy ==
    /\ polIn = [project |-> [kind |-> "transportError", status |-> 0, body |-> "", readOk |-> TRUE],
                org |-> [kind |-> "transportError", status |-> 0, body |-> "", readOk |-> TRUE],
                teams |-> [ok |-> FALSE, teams |-> {}],
                engine |-> [kind |-> "noResults", exprs |-> <<>>]]
    /\ getPolicyOut = NotCalledGetPolicy
    /\ checkOut = NotCalledCheck

IdleRouter ==
    /\ routerIn = [event |-> [EventType |-> ""], gitLabContext |-> [DiggerCommand |-> <<>>],
                   impactedProjects |-> <<>>]
    /\ routerOut = NotCalledRouter

\* a job about to run RunCommandsPerProject(batch, ...) for merge request mr:
\* todo is what the loops have left to do, done the iterations made
NewJob(batch, mr) ==
    [commandsPerProject |-> batch, MergeRequestIId |-> mr, done |-> 0,
     todo |-> Iterations(batch, 1, 1),
     lockAcquisitionSuccess |-> TRUE, status |-> "running", trace |-> <<>>]

IdleRunner ==
    /\ jobs = [j \in Jobs |-> NewJob(<<>>, j)]
    /\ locks = {}
----------------------------------------------------------------------------
(* SpecPolicy: the endpoints', CI service's and engine's answers are drawn *)
(* in Init; GetPolicyCall and CheckCall apply the two methods to them.     *)

ProjectBodies == {"", "projectPolicy"}
OrgBodies == {"", "orgPolicy"}

PolicyInputs ==
    [project : HttpOutcomes(ProjectBodies), org : HttpOutcomes(OrgBodies),
     teams : TeamLookups, engine : EngineOutcomes]

InitPolicy ==
    /\ polIn \in PolicyInputs
    /\ getPolicyOut = NotCalledGetPolicy
    /\ checkOut = NotCalledCheck
    /\ IdleRouter
    /\ IdleRunner

GetPolicyCall ==
    /\ ~getPolicyOut.called
    /\ getPolicyOut' =
         LET g == GetPolicy(polIn.project, polIn.org)
         IN  [called |-> TRUE, policy |-> g.policy, err |-> g.err,
              requests |-> g.requests]
    /\ UNCHANGED <<polIn, checkOut, routerVars, runnerVars>>

CheckCall ==
    /\ ~checkOut.called
    /\ checkOut' = Check(polIn)
    /\ UNCHANGED <<polIn, getPolicyOut, routerVars, runnerVars>>

NextPolicy == GetPolicyCall \/ CheckCall

SpecPolicy == InitPolicy /\ [][NextPolicy]_vars

----------------------------------------------------------------------------
(* SpecRouter: the event, the comment text and the impacted projects are   *)
(* drawn in Init; ConvertCall applies ConvertGitLabEventToCommands.        *)

RouterInputs ==
    [event : [EventType : EventTypes],
     gitLabContext : [DiggerCommand : CommentTexts],
     impactedProjects : SeqsUpTo(ProjectPool, MaxProjects)]

InitRouter ==
    /\ routerIn \in RouterInputs
    /\ routerOut = NotCalledRouter
    /\ IdlePolicy
    /\ IdleRunner

ConvertCall ==
    /\ ~routerOut.called
    /\ routerOut' =
         LET r == ConvertGitLabEventToCommands(routerIn.event, routerIn.gitLabContext,
                                               routerIn.impactedProjects)
         IN  [called |-> TRUE, commandsPerProject |-> r.commandsPerProject, err |-> r.err]
    /\ UNCHANGED <<routerIn, polVars, runnerVars>>

NextRouter == ConvertCall

SpecRouter == InitRouter /\ [][NextRouter]_vars

----------------------------------------------------------------------------
(* Spec: two CI jobs run RunCommandsPerProject against one lock store.    *)
(* RunStep is one iteration of the loops; Finish is lines 246-249.        *)

\* the project identities of a batch
Identities ==
    {[ProjectName |-> "p1", ProjectDir |-> "d1", ProjectWorkspace |-> "default",
      Terragrunt |-> FALSE],
     [ProjectName |-> "p1", ProjectDir |-> "d1", ProjectWorkspace |-> "dev",
      Terragrunt |-> FALSE],
     [ProjectName |-> "p2", ProjectDir |-> "d2", ProjectWorkspace |-> "default",
      Terragrunt |-> TRUE]}

\* command strings of a batch: the four the switch knows and one it does not
BatchCommands == {"digger plan", "digger apply", "digger unlock", "digger lock", "terraform fmt"}

\* what a project's entry counts for in a batch: its commands, at least one
BatchSize(commands) == IF Len(commands) = 0 THEN 1 ELSE Len(commands)

\* batches whose entries count for at most m together
RECURSIVE Batches(_)
Batches(m) ==
    {<<>>} \cup
    UNION {{<<id @@ [Commands |-> cs]>> \o rest : rest \in Batches(m - BatchSize(cs))} :
              id \in Identities,
              cs \in {c \in SeqsUpTo(BatchCommands, m) : BatchSize(c) <= m}}

\* batches of the second job: nothing, or one command for p1 that takes or
\* releases its lock
RivalBatches ==
    {<<>>} \cup
    {<<id @@ [Commands |-> <<command>>]>> :
        id \in {i \in Identities : i.ProjectName = "p1" /\ i.ProjectWorkspace = "default"},
        command \in {"digger lock", "digger apply", "digger unlock"}}

\* job 1 runs any batch for merge request 1; job 2 overlaps it, for the same
\* merge request (a webhook delivered again) or for another one
Init ==
    /\ \E b1 \in Batches(MaxCmds), b2 \in RivalBatches, mr2 \in {1, 2} :
          jobs = (1 :> NewJob(b1, 1)) @@ (2 :> NewJob(b2, mr2))
    /\ locks = {}
    /\ IdlePolicy
    /\ IdleRouter

RunStep(j) ==
    LET job == jobs[j]
    IN  /\ job.status = "running"
        /\ job.todo # <<>>
        /\ LET it == Head(job.todo)
               projectCommands == job.commandsPerProject[it.project]
               command == projectCommands.Commands[it.command]
               r == RunCommand(locks, projectCommands, command, job.MergeRequestIId)
           IN  /\ locks' = r.store
               /\ jobs' = [jobs EXCEPT ![j] =
                     [job EXCEPT
                        !.done = job.done + 1,
                        !.todo = Advance(job.todo, r),
                        !.lockAcquisitionSuccess =
                            IF r.op = "Lock"
                            THEN RecordLock(job.lockAcquisitionSuccess, r.ok)
                            ELSE job.lockAcquisitionSuccess,
                        !.trace =
                            IF r.op = "none" THEN job.trace
                            ELSE Append(job.trace,
                                     [at |-> job.done + 1, op |-> r.op, ok |-> r.ok,
                                      project |-> it.project, command |-> command,
                                      key |-> LockKey(projectCommands),
                                      lockedBefore |->
                                          \E l \in locks : l.key = LockKey(projectCommands)])]]
        /\ UNCHANGED <<polVars, routerVars>>

Finish(j) ==
    LET job == jobs[j]
    IN  /\ job.status = "running"
        /\ job.todo = <<>>
        /\ jobs' = [jobs EXCEPT ![j].status = ExitStatus(job.lockAcquisitionSuccess)]
        /\ UNCHANGED <<locks, polVars, routerVars>>

Next == \E j \in Jobs : RunStep(j) \/ Finish(j)

Spec == Init /\ [][Next]_vars

----------------------------------------------------------------------------
(* Claims about package policy (checked under SpecPolicy) *)

\* the policy fetch fails: a request cannot be sent, or a status
\* other than 200/404 arrives, at the project level or (after a project-level
\* 404) at the organisation level
EndpointFails(o) ==
    \/ o.kind = "transportError"
    \/ o.kind = "response" /\ o.status \notin {200, 404}

PolicyFetchFails(in) ==
    \/ EndpointFails(in.project)
    \/ in.project.status = 404 /\ EndpointFails(in.org)

\* C3: whenever the policy fetch fails, Check returns an error and never
\* (true, nil), whatever the team lookup returns.
C3_FetchFailureSurfaced ==
    (checkOut.called /\ PolicyFetchFails(polIn))
        => (checkOut.err # NoError /\ ~checkOut.allowed)

\* C5: GetPolicy's result follows the table: project 200 -> project body, no
\* error; project 404 and org 200 -> org body, no error; both 404 -> "", no
\* error; another status at either level -> an error carrying that status.
C5_GetPolicyTable ==
    (getPolicyOut.called /\ polIn.project.kind = "response") =>
        LET p == polIn.project
            o == polIn.org
            out == getPolicyOut
        IN  /\ p.status = 200 => (out.policy = p.body /\ out.err = NoError)
            /\ (p.status = 404 /\ o.kind = "response" /\ o.status = 200)
                   => (out.policy = o.body /\ out.err = NoError)
            /\ (p.status = 404 /\ o.kind = "response" /\ o.status = 404)
                   => (out.policy = "" /\ out.err = NoError)
            /\ p.status \notin {200, 404}
                   => (out.err # NoError /\ out.err.code = p.status)
            /\ (p.status = 404 /\ o.kind = "response" /\ o.status \notin {200, 404})
                   => (out.err # NoError /\ out.err.code = o.status)

\* the engine's result list: results[0].Expressions when there is one
ResultList(engine) == IF engine.kind = "expressions" THEN engine.exprs ELSE <<>>

AllTrue(exprs) == \A i \in 1..Len(exprs) : exprs[i].isBool /\ exprs[i].b

Granted(out) == out.allowed /\ out.err = NoError

\* C6: with a non-empty policy and a successful team lookup, Check grants iff
\* the result list is non-empty and all true; a list of booleans with a false
\* in it yields (false, nil).
C6_GrantIffAllTrue ==
    (checkOut.called /\ checkOut.policy # "" /\ polIn.teams.ok) =>
        LET exprs == ResultList(polIn.engine)
        IN  /\ Granted(checkOut) <=> (Len(exprs) > 0 /\ AllTrue(exprs))
            /\ ( /\ Len(exprs) > 0
                 /\ \A i \in 1..Len(exprs) : exprs[i].isBool
                 /\ \E i \in 1..Len(exprs) : ~exprs[i].b )
               => (~checkOut.allowed /\ checkOut.err = NoError)

\* C6 witness: a non-empty policy, teams found, and a list of two or more
\* booleans whose first is true and a later one false: denied without error.
C6_Witness ==
    /\ checkOut.called /\ checkOut.policy # "" /\ polIn.teams.ok
    /\ polIn.engine.kind = "expressions" /\ Len(polIn.engine.exprs) >= 2
    /\ polIn.engine.exprs[1] = [isBool |-> TRUE, b |-> TRUE]
    /\ polIn.engine.exprs[2] = [isBool |-> TRUE, b |-> FALSE]
    /\ ~checkOut.allowed /\ checkOut.err = NoError

\* C7: when the policy text obtained is empty, Check returns (true, nil) for
\* every team set the lookup returns, and the engine is not consulted.
C7_EmptyPolicyGrants ==
    (checkOut.called /\ checkOut.policy = "" /\ polIn.teams.ok)
        => (Granted(checkOut) /\ ~checkOut.engineConsulted)

\* C7 witness: both endpoints answer 404, the requester is in a team, the
\* engine would have denied, and Check granted.
C7_Witness ==
    /\ checkOut.called /\ checkOut.policy = ""
    /\ polIn.project.kind = "response" /\ polIn.project.status = 404
    /\ polIn.org.kind = "response" /\ polIn.org.status = 404
    /\ polIn.teams.ok /\ polIn.teams.teams = {"dev"}
    /\ polIn.engine.kind = "expressions"
    /\ polIn.engine.exprs = <<[isBool |-> TRUE, b |-> FALSE]>>
    /\ Granted(checkOut)

----------------------------------------------------------------------------
(* Claims about ConvertGitLabEventToCommands (checked under SpecRouter) *)

\* the workflow list the claim names for each lifecycle event
ClaimedStage(eventType, wf) ==
    IF eventType = MergeRequestOpened THEN wf.OnCommitToDefault
    ELSE IF eventType = MergeRequestUpdated THEN wf.OnPullRequestPushed
    ELSE wf.OnPullRequestClosed

\* the ProjectCommand at position n carries project p unchanged
CarriesProject(pc, p) ==
    /\ pc.ProjectName = p.Name
    /\ pc.ProjectDir = p.Dir
    /\ pc.ProjectWorkspace = p.Workspace
    /\ pc.Terragrunt = p.Terragrunt

\* C8: an Opened, Updated or Closed event yields, without error, one
\* ProjectCommand per impacted project, in order, carrying the project's
\* name, dir, workspace and terragrunt flag and the OnCommitToDefault,
\* OnPullRequestPushed or OnPullRequestClosed list respectively.
C8_LifecycleCommands ==
    ( /\ routerOut.called
      /\ routerIn.event.EventType \in
             {MergeRequestOpened, MergeRequestUpdated, MergeRequestClosed} ) =>
        LET ps == routerIn.impactedProjects
            out == routerOut.commandsPerProject
        IN  /\ routerOut.err = NoError
            /\ Len(out) = Len(ps)
            /\ \A i \in 1..Len(ps) :
                  /\ CarriesProject(out[i], ps[i])
                  /\ out[i].Commands =
                         ClaimedStage(routerIn.event.EventType, ps[i].WorkflowConfiguration)

\* C8 witness: an Opened event with two different impacted projects, converted.
C8_Witness ==
    /\ routerOut.called
    /\ routerIn.event.EventType = MergeRequestOpened
    /\ Len(routerIn.impactedProjects) = 2
    /\ routerIn.impactedProjects[1] # routerIn.impactedProjects[2]
    /\ Len(routerOut.commandsPerProject) = 2

\* the vocabulary phrases the comment text contains
MatchedPhrases(text) ==
    {k \in 1..Len(supportedCommands) : Contains(text, Chars(supportedCommands[k]))}

\* C9: a Commented event yields, without error, (phrases contained in the
\* text) x (impacted projects) ProjectCommands, one per (matched phrase,
\* impacted project) pair, each with Commands = <<phrase>>; no phrase, no
\* commands.
C9_CommentCommands ==
    (routerOut.called /\ routerIn.event.EventType = MergeRequestComment) =>
        LET ps == routerIn.impactedProjects
            out == routerOut.commandsPerProject
            matched == MatchedPhrases(routerIn.gitLabContext.DiggerCommand)
        IN  /\ routerOut.err = NoError
            /\ Len(out) = Cardinality(matched) * Len(ps)
            /\ \A n \in 1..Len(out) :
                  \E k \in matched : out[n].Commands = <<supportedCommands[k]>>
            /\ \A k \in matched :
                  \E S \in SUBSET (1..Len(out)) :
                      /\ S = {n \in 1..Len(out) : out[n].Commands = <<supportedCommands[k]>>}
                      /\ Cardinality(S) = Len(ps)
                      /\ \A i \in 1..Len(ps) :
                            \E n \in S :
                                /\ CarriesProject(out[n], ps[i])
                                /\ Cardinality({m \in S : m < n}) = i - 1
            /\ matched = {} => out = <<>>

\* C9 witness: a comment containing exactly two phrases, two impacted
\* projects, four ProjectCommands.
C9_Witness ==
    /\ routerOut.called
    /\ routerIn.event.EventType = MergeRequestComment
    /\ Cardinality(MatchedPhrases(routerIn.gitLabContext.DiggerCommand)) = 2
    /\ Len(routerIn.impactedProjects) = 2
    /\ Len(routerOut.commandsPerProject) = 4

\* C10: any event type other than the four known ones, the unset one
\* included, yields an "unsupported event type" error and no commands,
\* whatever the impacted projects.
C10_UnsupportedEvent ==
    ( /\ routerOut.called
      /\ routerIn.event.EventType \notin
             {MergeRequestOpened, MergeRequestUpdated, MergeRequestClosed,
              MergeRequestComment} ) =>
        /\ routerOut.err = ErrorOf("unsupported GitLab event type")
        /\ routerOut.commandsPerProject = <<>>

\* C10 witness: the unset event type with two impacted projects, converted.
C10_Witness ==
    /\ routerOut.called
    /\ routerIn.event.EventType = ""
    /\ Len(routerIn.impactedProjects) = 2
    /\ routerOut.err # NoError

----------------------------------------------------------------------------
(* Claims about RunCommandsPerProject (checked under Spec) *)

\* the lock acquisitions ("digger lock") a job has made that returned false
FailedLocks(j) ==
    {n \in 1..Len(jobs[j].trace) : jobs[j].trace[n].op = "Lock" /\ ~jobs[j].trace[n].ok}

\* C1: a run ends with a failing exit status iff at least one lock
\* acquisition of its batch returned false, also when a later one succeeded.
C1_ExitIffLockFailed ==
    \A j \in Jobs :
        jobs[j].status # "running"
            => (jobs[j].status = "exit1" <=> FailedLocks(j) # {})

\* C2: every command is preceded by a Checker.Check for it; a command whose
\* check is denied reaches neither the executor nor the lock store.
C2_CheckedBeforeRun ==
    \A j \in Jobs :
        LET trace == jobs[j].trace
        IN  /\ \A k \in 1..jobs[j].done :
                  \E n \in 1..Len(trace) : trace[n].op = "Check" /\ trace[n].at = k
            /\ \A n \in 1..Len(trace) :
                  trace[n].op # "Check" =>
                      /\ n > 1 /\ trace[n - 1].op = "Check" /\ trace[n - 1].at = trace[n].at
                      /\ CheckerAllows(trace[n].command)

\* C4: under any interleaving of the jobs, a key has at most one unreleased
\* lock, and an acquisition returned true only when the key had none: two
\* overlapping jobs never both hold it.
C4_OneLockPerKey ==
    /\ \A l1 \in locks : \A l2 \in locks : l1.key = l2.key => l1 = l2
    /\ \A j \in Jobs : \A n \in 1..Len(jobs[j].trace) :
          (jobs[j].trace[n].op \in {"Lock", "Apply"} /\ jobs[j].trace[n].ok)
              => ~jobs[j].trace[n].lockedBefore

\* C4 witness: job 1's "digger lock" was refused for a key that job 2, of
\* another merge request, acquired before and still holds.
C4_Witness ==
    /\ jobs[1].MergeRequestIId # jobs[2].MergeRequestIId
    /\ \E n \in FailedLocks(1) :
          /\ jobs[1].trace[n].lockedBefore
          /\ [key |-> jobs[1].trace[n].key, holder |-> jobs[2].MergeRequestIId] \in locks
          /\ \E m \in 1..Len(jobs[2].trace) :
                jobs[2].trace[m].ok /\ jobs[2].trace[m].key = jobs[1].trace[n].key


\* the commands of the projects before project i of a batch
RECURSIVE CommandsBefore(_, _)
CommandsBefore(batch, i) ==
    IF i <= 1 THEN 0
    ELSE CommandsBefore(batch, i - 1) + Len(batch[i - 1].Commands)

\* the rank of command c of project i when the batch is read project by
\* project and, within a project, command by command
Rank(batch, i, c) == CommandsBefore(batch, i) + c

\* the commands of a batch
BatchTotal(batch) == CommandsBefore(batch, Len(batch) + 1)

\* C11: a failed lock acquisition does not abort the batch: the k-th
\* iteration of a run dispatches the command of rank k (project order, then
\* command order), each command once, whatever earlier acquisitions
\* returned, and the terminal status is decided only after the last one.
C11_NoEarlyAbort ==
    \A j \in Jobs :
        LET job == jobs[j]
            batch == job.commandsPerProject
            trace == job.trace
        IN  /\ job.done + Len(job.todo) = BatchTotal(batch)
            /\ \A k \in 1..Len(job.todo) :
                  Rank(batch, job.todo[k].project, job.todo[k].command) = job.done + k
            /\ \A n \in 1..Len(trace) :
                  /\ trace[n].at \in 1..job.done
                  /\ n > 1 => trace[n - 1].at < trace[n].at
                  /\ \E c \in 1..Len(batch[trace[n].project].Commands) :
                        /\ Rank(batch, trace[n].project, c) = trace[n].at
                        /\ batch[trace[n].project].Commands[c] = trace[n].command
            /\ \A i \in 1..Len(batch) : \A c \in 1..Len(batch[i].Commands) :
                  ( /\ Rank(batch, i, c) <= job.done
                    /\ \E k \in 1..Len(supportedCommands) :
                          batch[i].Commands[c] = supportedCommands[k] )
                  => \E n \in 1..Len(trace) :
                        /\ trace[n].at = Rank(batch, i, c)
                        /\ trace[n].project = i
                        /\ trace[n].command = batch[i].Commands[c]
            /\ job.status # "running" => job.done = BatchTotal(batch)

\* C11 witness: job 1's lock acquisition for its first project was refused,
\* the command of its second project was dispatched after it, and only then
\* did the run end.
C11_Witness ==
    /\ jobs[1].status # "running"
    /\ Len(jobs[1].commandsPerProject) = 2
    /\ Len(jobs[1].trace) = 2
    /\ jobs[1].trace[1].op = "Lock" /\ ~jobs[1].trace[1].ok
    /\ jobs[1].trace[1].project = 1
    /\ jobs[1].trace[2].project = 2 /\ jobs[1].trace[2].at = 2


----------------------------------------------------------------------------
(* Further claims about package policy (checked under SpecPolicy) *)

\* how often an endpoint occurs in a list of requests
TimesRequested(requests, endpoint) ==
    Cardinality({n \in 1..Len(requests) : requests[n] = endpoint})

\* the project-level response had status 404
ProjectNotFound(in) == in.project.kind = "response" /\ in.project.status = 404

\* the requests of every GetPolicy call made so far: the direct one and the
\* one Check makes
GetPolicyRequests ==
    {getPolicyOut.requests : x \in {y \in {1} : getPolicyOut.called}}
    \cup {checkOut.requests : x \in {y \in {1} : checkOut.called}}

\* C12: in every GetPolicy call the project endpoint is requested first and
\* exactly once, and the organisation endpoint is requested, at most once,
\* iff the project-level response had status 404.
C12_RequestOrder ==
    \A requests \in GetPolicyRequests :
        /\ TimesRequested(requests, "project") = 1
        /\ requests[1] = "project"
        /\ TimesRequested(requests, "org") <= 1
        /\ TimesRequested(requests, "org") = 1 <=> ProjectNotFound(polIn)

\* C12 as amended: a request that cannot be built is not sent; otherwise as
\* C12.  The project endpoint is requested at most once, before any other
\* request, and exactly once when its request can be built; the
\* organisation endpoint is requested at most once, and is requested iff
\* the project-level response had status 404 and its request can be built.
C12_RequestOrderWhenBuilt ==
    \A requests \in GetPolicyRequests :
        /\ TimesRequested(requests, "project") <= 1
        /\ TimesRequested(requests, "project") = 1
               <=> polIn.project.kind # "newRequestError"
        /\ requests # <<>> => requests[1] = "project"
        /\ TimesRequested(requests, "org") <= 1
        /\ TimesRequested(requests, "org") = 1
               <=> (ProjectNotFound(polIn) /\ polIn.org.kind # "newRequestError")
        /\ Len(requests) = TimesRequested(requests, "project")
                              + TimesRequested(requests, "org")

\* C12 witness: the project endpoint answered 404 and the organisation
\* endpoint was then asked, once, after it.
C12_Witness ==
    /\ getPolicyOut.called
    /\ ProjectNotFound(polIn)
    /\ polIn.org.kind = "response" /\ polIn.org.status = 200
    /\ getPolicyOut.requests = <<"project", "org">>


\* C13: for a non-empty policy (the lookup of teams and the preparation of
\* the query having succeeded), an empty result list yields (false, "no
\* result found") and a list with a non-boolean element yields (false,
\* "decision is not a boolean"), wherever that element stands and whatever
\* the other elements are.
C13_MalformedDecision ==
    ( /\ checkOut.called /\ checkOut.policy # "" /\ polIn.teams.ok
      /\ polIn.engine.kind \in {"noResults", "expressions"} ) =>
        LET exprs == ResultList(polIn.engine)
        IN  /\ exprs = <<>> =>
                  (~checkOut.allowed /\ checkOut.err = ErrorOf("no result found"))
            /\ (\E i \in 1..Len(exprs) : ~exprs[i].isBool) =>
                  ( /\ ~checkOut.allowed
                    /\ checkOut.err = ErrorOf("decision is not a boolean") )


\* C14: Check fails closed: whenever the error it returns is non-nil the
\* decision is false, and the decision is false in each of these outcomes:
\* the team lookup fails; or, the policy being non-empty, the query cannot
\* be prepared, the evaluation fails, the result is empty or holds a
\* non-boolean.
C14_FailsClosed ==
    checkOut.called =>
        /\ checkOut.err # NoError => ~checkOut.allowed
        /\ ~polIn.teams.ok => ~checkOut.allowed
        /\ ( /\ polIn.teams.ok /\ checkOut.policy # ""
             /\ \/ polIn.engine.kind \in {"prepareError", "evalError", "noResults"}
                \/ polIn.engine.exprs = <<>>
                \/ \E i \in 1..Len(polIn.engine.exprs) : ~polIn.engine.exprs[i].isBool )
           => ~checkOut.allowed

\* C14 witness: the query of a non-empty policy could not be prepared, and
\* Check returned that error with a false decision.
C14_Witness ==
    /\ checkOut.called /\ checkOut.policy # "" /\ polIn.teams.ok
    /\ polIn.engine.kind = "prepareError"
    /\ checkOut.err = ErrorOf("prepare")
    /\ ~checkOut.allowed


\* C15: when the team lookup fails, Check returns (false, the lookup's
\* error) whatever the policy text is, the empty one and a successfully
\* fetched one included, and the engine is not consulted; the empty-policy
\* grant is given only after a successful lookup.
C15_TeamLookupFailureDenies ==
    checkOut.called =>
        /\ ~polIn.teams.ok =>
              ( /\ ~checkOut.allowed
                /\ checkOut.err = ErrorOf("teams")
                /\ ~checkOut.engineConsulted )
        /\ (checkOut.policy = "" /\ checkOut.allowed) => polIn.teams.ok

\* C15 witness: both endpoints answered 404, so the fetch succeeded with an
\* empty policy; the team lookup failed and Check denied with its error.
C15_Witness ==
    /\ checkOut.called
    /\ ProjectNotFound(polIn)
    /\ polIn.org.kind = "response" /\ polIn.org.status = 404
    /\ checkOut.policy = "" /\ checkOut.fetchErr = NoError
    /\ ~polIn.teams.ok
    /\ ~checkOut.allowed /\ checkOut.err = ErrorOf("teams")


\* a response with status 200 whose body io.ReadAll fails to read
UnreadableOk(o) == o.kind = "response" /\ o.status = 200 /\ ~o.readOk

\* the policy endpoint that decides answered 200 with an unreadable body:
\* the project one, or the organisation one after a project-level 404
UnreadablePolicy(in) ==
    \/ UnreadableOk(in.project)
    \/ ProjectNotFound(in) /\ UnreadableOk(in.org)

\* C17: a failure to read the response body is swallowed: on a 200 response
\* whose body cannot be read GetPolicy returns ("", nil), and Check (its
\* team lookup having succeeded) takes that for no policy and grants without
\* consulting the engine.
C17_ReadFailureSwallowed ==
    /\ (getPolicyOut.called /\ UnreadablePolicy(polIn))
           => (getPolicyOut.policy = "" /\ getPolicyOut.err = NoError)
    /\ (checkOut.called /\ UnreadablePolicy(polIn) /\ polIn.teams.ok)
           => ( /\ checkOut.policy = "" /\ checkOut.fetchErr = NoError
                /\ Granted(checkOut) /\ ~checkOut.engineConsulted )

\* C17 witness: the project endpoint answered 200 with a policy whose body
\* could not be read; the engine would have denied; Check granted.
C17_Witness ==
    /\ checkOut.called
    /\ UnreadableOk(polIn.project) /\ polIn.project.body = "projectPolicy"
    /\ polIn.teams.ok
    /\ polIn.engine.kind = "expressions"
    /\ polIn.engine.exprs = <<[isBool |-> TRUE, b |-> FALSE]>>
    /\ Granted(checkOut)

----------------------------------------------------------------------------
(* Further claims about ConvertGitLabEventToCommands (checked under        *)
(* SpecRouter)                                                             *)

\* where substr first occurs in s (s contains it)
FirstOccurrence(s, substr) ==
    CHOOSE i \in 1..Len(s) :
        /\ SubSeq(s, i, i + Len(substr) - 1) = substr
        /\ \A h \in 1..(i - 1) : SubSeq(s, h, h + Len(substr) - 1) # substr

\* the place in the vocabulary of the phrase a ProjectCommand carries
PhraseIndex(pc) ==
    CHOOSE k \in 1..Len(supportedCommands) : pc.Commands = <<supportedCommands[k]>>

\* C18: for a Commented event the ProjectCommands come in vocabulary order
\* (plan, apply, unlock, lock) and, within a phrase, in impacted-project
\* order, wherever the phrases stand in the text: the n-th one carries the
\* phrase of the n-th (matched phrase, project) pair counted that way, so
\* every command of an earlier phrase precedes every command of a later one.
C18_VocabularyOrder ==
    (routerOut.called /\ routerIn.event.EventType = MergeRequestComment) =>
        LET ps == routerIn.impactedProjects
            out == routerOut.commandsPerProject
            matched == MatchedPhrases(routerIn.gitLabContext.DiggerCommand)
        IN  /\ Len(out) = Cardinality(matched) * Len(ps)
            /\ \A n \in 1..Len(out) :
                  LET i == ((n - 1) % Len(ps)) + 1
                      g == ((n - 1) \div Len(ps)) + 1
                  IN  /\ CarriesProject(out[n], ps[i])
                      /\ \E k \in matched :
                            /\ Cardinality({h \in matched : h < k}) = g - 1
                            /\ out[n].Commands = <<supportedCommands[k]>>
            /\ \A n \in 1..Len(out) : \A m \in 1..Len(out) :
                  n < m => PhraseIndex(out[n]) <= PhraseIndex(out[m])

\* C18 witness: the text has "digger apply" before "digger plan", two
\* projects are impacted, and both plan commands come before both apply
\* commands.
C18_Witness ==
    /\ routerOut.called
    /\ routerIn.event.EventType = MergeRequestComment
    /\ LET text == routerIn.gitLabContext.DiggerCommand
       IN  /\ MatchedPhrases(text) = {1, 2}
           /\ FirstOccurrence(text, Chars("digger apply"))
                  < FirstOccurrence(text, Chars("digger plan"))
    /\ Len(routerIn.impactedProjects) = 2
    /\ routerIn.impactedProjects[1] # routerIn.impactedProjects[2]
    /\ Len(routerOut.commandsPerProject) = 4
    /\ routerOut.commandsPerProject[1].Commands = <<"digger plan">>
    /\ routerOut.commandsPerProject[2].Commands = <<"digger plan">>
    /\ routerOut.commandsPerProject[3].Commands = <<"digger apply">>
    /\ routerOut.commandsPerProject[4].Commands = <<"digger apply">>

----------------------------------------------------------------------------
(* Further claims about RunCommandsPerProject (checked under Spec) *)

\* the ProjectCommand that entry n of job j's trace was dispatched for
TraceProject(j, n) == jobs[j].commandsPerProject[jobs[j].trace[n].project]

\* C16: locks of different projects, and of different workspaces of one
\* project, are independent: an acquisition (by lock, plan or apply) is
\* refused only when a lock was taken, and not released, for the same
\* project and the same workspace; so every refused acquisition has a
\* successful acquisition for that very project and workspace behind it.
C16_DistinctKeysIndependent ==
    \A j \in Jobs : \A n \in 1..Len(jobs[j].trace) :
        ( /\ jobs[j].trace[n].op \in {"Lock", "Plan", "Apply"}
          /\ ~jobs[j].trace[n].ok ) =>
            \E j2 \in Jobs : \E m \in 1..Len(jobs[j2].trace) :
                /\ jobs[j2].trace[m].op \in {"Lock", "Apply"}
                /\ jobs[j2].trace[m].ok
                /\ TraceProject(j2, m).ProjectName = TraceProject(j, n).ProjectName
                /\ TraceProject(j2, m).ProjectWorkspace
                       = TraceProject(j, n).ProjectWorkspace


\* the command the next iteration of a job dispatches
NextCommand(job) ==
    job.commandsPerProject[Head(job.todo).project].Commands[Head(job.todo).command]

\* the command is one of the four the switch has a case for
Supported(command) ==
    \E k \in 1..Len(supportedCommands) : command = supportedCommands[k]

\* C19: an iteration whose command is not one of the four supported strings
\* is a silent skip: the lock store is untouched, no executor operation is
\* recorded, the flag and the status stay as they were, and the job moves
\* on to the next command.
C19_UnsupportedSkipped ==
    [][\A j \in Jobs :
          ( /\ jobs'[j] # jobs[j]
            /\ jobs[j].todo # <<>>
            /\ ~Supported(NextCommand(jobs[j])) ) =>
              /\ locks' = locks
              /\ jobs'[j].trace = jobs[j].trace
              /\ jobs'[j].lockAcquisitionSuccess = jobs[j].lockAcquisitionSuccess
              /\ jobs'[j].status = jobs[j].status
              /\ jobs'[j].done = jobs[j].done + 1
              /\ jobs'[j].todo = Tail(jobs[j].todo)]_vars

\* C19 witness: job 1's project has the commands "terraform fmt" and
\* "digger lock"; after two iterations the only operation recorded is the
\* lock, made at the second, and the lock store holds just that lock.
C19_Witness ==
    /\ Len(jobs[1].commandsPerProject) = 1
    /\ jobs[1].commandsPerProject[1].Commands = <<"terraform fmt", "digger lock">>
    /\ jobs[2].commandsPerProject = <<>>
    /\ jobs[1].done = 2
    /\ Len(jobs[1].trace) = 1
    /\ jobs[1].trace[1].at = 2 /\ jobs[1].trace[1].op = "Lock" /\ jobs[1].trace[1].ok
    /\ locks = {[key |-> LockKey(jobs[1].commandsPerProject[1]),
                 holder |-> jobs[1].MergeRequestIId]}

====
